---- MODULE Spec2Model ----
(***************************************************************************)
(* Model of src/Main.py: the set-up of the multi-agent economy.           *)
(*                                                                         *)
(* The program keeps three module-level lists (agents, firms, banks).     *)
(* main() calls setup(), which calls createAgents(), which runs three     *)
(* loops that construct A agents, F firms and R banks and append them to  *)
(* the lists; main() then prints "done setting up".                       *)
(*                                                                         *)
(* Numbers: the Python floats that occur (0.0 and totalMoney/(A+F+R)) are *)
(* whole, so they are modelled as integers.                               *)
(***************************************************************************)
EXTENDS Integers, Sequences, FiniteSets

(***************************************************************************)
(* Population sizes.  The source sets A = 100, F = 30, R = 3 (Main.py     *)
(* 119-123); the model runs the same loops over smaller populations.      *)
(***************************************************************************)
A == 2
F == 1
R == 2

\* Number of labour types (Main.py 118).
Q == 3

\* How many times a client may call setup() in SpecCalls.
MaxCalls == 2

\* Main.py 125: $1000 for each agent, firm and bank.
totalMoney == 1000 * (A + F + R)

\* Main.py 186: `self.type = type`.  Firm.__init__ has no parameter or local
\* named type, so the name resolves to Python's builtin class `type`.
BuiltinType == "<class 'type'>"

\* The four product types of the comments on Main.py 172 and 186.
ProductTypes ==
  {"consumer good", "1st order capital good", "2nd order capital good", "raw resource"}

(***************************************************************************)
(* random.randrange(start, stop, 1): any integer n with start <= n < stop.*)
(* The module never seeds the generator, so each draw is a free choice.   *)
(***************************************************************************)
\* randint's reading of the arguments, with stop itself a possible result.
randrangeInclusive(start, stop) == start .. stop

randrange(start, stop) == start .. (stop - 1)

\* The smallest and the largest result of randrange(start, stop): the draws
\* explored for the wide ranges (price, bank money, interest).
randrangeEnds(start, stop) ==
  {n \in {start, stop - 1} : n \in randrange(start, stop)}

\* Main.py 144 and 147: the draws of Agent.__init__.
ChosenBankDraws == randrange(0, R)
TypeDraws == randrange(0, Q)

\* Main.py 190: the draw of Firm.__init__.
PriceDraws == randrangeEnds(0, 100)

\* A bank's cash drawn as a signed position.
BankMoneyDrawsSigned == randrangeEnds(0 - 10000, 10000)

\* Main.py 218: the money draw of Bank.__init__.
BankMoneyDraws == randrangeEnds(0, 10000)

\* The interest drawn over the range of the price draw.
InterestDrawsAsPrice == randrangeEnds(0, 100)

\* Main.py 219: the interest draw of Bank.__init__.
InterestDraws == randrangeEnds(0, 30)

(***************************************************************************)
(* The constructors.  cb, ty, pr, mo, in are the results of the randrange *)
(* calls the constructor makes.                                           *)
(***************************************************************************)
Agent(identity, cb, ty) ==
  [ money            |-> totalMoney \div (A + F + R),
    virtualMoney     |-> 0,
    chosenBank       |-> cb,
    employer         |-> 0 - 1,
    id               |-> identity,
    type             |-> ty,
    leisureParameter |-> 0,
    goodParameters   |-> << >>,
    debts            |-> << >>,
    moneyParameter   |-> 0 ]

Firm(identity, pr) ==
  [ money        |-> totalMoney \div (A + F + R),
    virtualMoney |-> 0,
    chosenBank   |-> 0,
    id           |-> identity,
    type         |-> BuiltinType,
    price        |-> pr ]

Bank(identity, mo, in) ==
  [ virtualMoney |-> totalMoney \div (A + F + R),
    id           |-> identity,
    money        |-> mo,
    interest     |-> in,
    profit       |-> 0 ]

(***************************************************************************)
(* State.                                                                  *)
(*   agents, firms, banks  the module-level lists                          *)
(*   pc     where control is: "main" (before setup), "agents", "firms",   *)
(*          "banks" (the three loops of createAgents), "returned" (setup  *)
(*          has returned), "done" (the line has been printed)              *)
(*   i      the loop variable of the running loop                          *)
(*   calls  how many calls of setup() have returned                        *)
(*   run    "first" or "second": which run of the program this is          *)
(*   prev   the lists the first run ended with (empty during that run)     *)
(***************************************************************************)
VARIABLES agents, firms, banks, pc, i, calls, run, prev

vars == <<agents, firms, banks, pc, i, calls, run, prev>>

lists == <<agents, firms, banks>>

Init ==
  /\ agents = << >>
  /\ firms = << >>
  /\ banks = << >>
  /\ pc = "main"
  /\ i = 0
  /\ calls = 0
  /\ run = "first"
  /\ prev = << >>

\* main() calls setup(), setup() calls createAgents(), the first loop starts.
CallSetup ==
  /\ pc = "main"
  /\ pc' = "agents"
  /\ i' = 0
  /\ UNCHANGED <<agents, firms, banks, calls, run, prev>>

\* One iteration of `for i in range(A)`.
CreateAgent ==
  /\ pc = "agents"
  /\ i < A
  /\ \E cb \in ChosenBankDraws, ty \in TypeDraws :
       agents' = Append(agents, Agent(i, cb, ty))
  /\ i' = i + 1
  /\ UNCHANGED <<firms, banks, pc, calls, run, prev>>

\* range(A) is exhausted: the firm loop starts.
AgentsDone ==
  /\ pc = "agents"
  /\ i = A
  /\ pc' = "firms"
  /\ i' = 0
  /\ UNCHANGED <<agents, firms, banks, calls, run, prev>>

\* The slip of appending a firm to the wrong list.
CreateFirmIntoAgents ==
  /\ pc = "firms"
  /\ i < F
  /\ \E pr \in PriceDraws :
       agents' = Append(agents, Firm(i, pr))
  /\ i' = i + 1
  /\ UNCHANGED <<firms, banks, pc, calls, run, prev>>

\* One iteration of `for i in range(F)`.
CreateFirm ==
  /\ pc = "firms"
  /\ i < F
  /\ \E pr \in PriceDraws :
       firms' = Append(firms, Firm(i, pr))
  /\ i' = i + 1
  /\ UNCHANGED <<agents, banks, pc, calls, run, prev>>

\* range(F) is exhausted: the bank loop starts.
FirmsDone ==
  /\ pc = "firms"
  /\ i = F
  /\ pc' = "banks"
  /\ i' = 0
  /\ UNCHANGED <<agents, firms, banks, calls, run, prev>>

\* One iteration of `for i in range(R)`.
CreateBank ==
  /\ pc = "banks"
  /\ i < R
  /\ \E mo \in BankMoneyDraws, in \in InterestDraws :
       banks' = Append(banks, Bank(i, mo, in))
  /\ i' = i + 1
  /\ UNCHANGED <<agents, firms, pc, calls, run, prev>>

\* range(R) is exhausted: createAgents() and setup() return.
SetupReturn ==
  /\ pc = "banks"
  /\ i = R
  /\ pc' = "returned"
  /\ calls' = calls + 1
  /\ UNCHANGED <<agents, firms, banks, i, run, prev>>

\* main() going round to setup() again instead of finishing.
LoopBackToSetup ==
  /\ pc = "returned"
  /\ calls < MaxCalls
  /\ pc' = "agents"
  /\ i' = 0
  /\ UNCHANGED <<agents, firms, banks, calls, run, prev>>

\* main() prints "done setting up" and returns; the program ends.
DoneSettingUp ==
  /\ pc = "returned"
  /\ pc' = "done"
  /\ UNCHANGED <<agents, firms, banks, i, calls, run, prev>>

createAgents ==
  \/ CreateAgent
  \/ AgentsDone
  \/ CreateFirm
  \/ FirmsDone
  \/ CreateBank
  \/ SetupReturn

\* One run of main().
Next ==
  \/ CallSetup
  \/ createAgents
  \/ DoneSettingUp

Spec == Init /\ [][Next]_vars

\* The interpreter runs the single thread of main() to its end.
FairSpec == Spec /\ WF_vars(Next)

(***************************************************************************)
(* A client of the module that calls setup() more than once.              *)
(***************************************************************************)
SetupAgain ==
  /\ pc = "returned"
  /\ calls < MaxCalls
  /\ pc' = "agents"
  /\ i' = 0
  /\ UNCHANGED <<agents, firms, banks, calls, run, prev>>

NextCalls ==
  \/ CallSetup
  \/ createAgents
  \/ SetupAgain

SpecCalls == Init /\ [][NextCalls]_vars

(***************************************************************************)
(* The program run twice with the same constants.  Each run is a fresh    *)
(* process: the lists start empty and the generator is seeded by the      *)
(* interpreter, since the module sets no seed.                            *)
(***************************************************************************)
RunAgain ==
  /\ pc = "done"
  /\ run = "first"
  /\ prev' = lists
  /\ run' = "second"
  /\ agents' = << >>
  /\ firms' = << >>
  /\ banks' = << >>
  /\ pc' = "main"
  /\ i' = 0
  /\ calls' = 0

NextTwoRuns ==
  \/ Next
  \/ RunAgain

SpecTwoRuns == Init /\ [][NextTwoRuns]_vars

(***************************************************************************)
(* Quantities the properties speak about.                                 *)
(***************************************************************************)
RECURSIVE SeqSum(_)
SeqSum(s) == IF s = << >> THEN 0 ELSE Head(s) + SeqSum(Tail(s))

\* money + virtualMoney of every element of a list, added up.
RECURSIVE Held(_)
Held(l) ==
  IF l = << >> THEN 0
  ELSE Head(l).money + Head(l).virtualMoney + Held(Tail(l))

\* The debts of every agent, added up (only Agent has a debts list).
RECURSIVE Owed(_)
Owed(l) ==
  IF l = << >> THEN 0
  ELSE (IF "debts" \in DOMAIN Head(l) THEN SeqSum(Head(l).debts) ELSE 0)
       + Owed(Tail(l))

TotalHeld == Held(agents) + Held(firms) + Held(banks)

NetMoney == TotalHeld - Owed(agents)

Ids(l) == [k \in 1 .. Len(l) |-> l[k].id]

\* The ids of a list of n actors as range(n) hands them out.
CountingFrom0(n) == [k \in 1 .. n |-> k - 1]

setupCompleted == calls >= 1

(***************************************************************************)
(* C1.  Every agent's utility exponents (each entry of goodParameters,    *)
(* leisureParameter, moneyParameter) are non-negative and add up to 1.    *)
(***************************************************************************)
ExponentInvariant ==
  \A k \in 1 .. Len(agents) :
    LET a == agents[k] IN
      /\ \A j \in 1 .. Len(a.goodParameters) : a.goodParameters[j] >= 0
      /\ a.leisureParameter >= 0
      /\ a.moneyParameter >= 0
      /\ SeqSum(a.goodParameters) + a.leisureParameter + a.moneyParameter = 1

(***************************************************************************)
(* C2.  Money conservation: once setup() has completed, no step changes   *)
(* the sum of money + virtualMoney over all actors minus the sum of all   *)
(* outstanding debts.                                                      *)
(***************************************************************************)
MoneyConservation == [][setupCompleted => NetMoney' = NetMoney]_vars

MoneyConservationWitness ==
  /\ pc = "done"
  /\ setupCompleted
  /\ Owed(agents) = 0
  /\ NetMoney > totalMoney

(***************************************************************************)
(* C3.  Initial endowment: after setup() every agent, firm and bank holds *)
(* money + virtualMoney = totalMoney / (A + F + R) = 1000, and together   *)
(* they hold totalMoney.                                                   *)
(***************************************************************************)
InitialEndowment ==
  setupCompleted =>
    /\ \A l \in {agents, firms, banks} : \A k \in 1 .. Len(l) :
         /\ l[k].money + l[k].virtualMoney = totalMoney \div (A + F + R)
         /\ l[k].money + l[k].virtualMoney = 1000
    /\ TotalHeld = totalMoney

(***************************************************************************)
(* C4.  Determinism: a second run with the same constants ends setup with *)
(* the same chosenBank and type for every agent, the same price for every *)
(* firm and the same money and interest for every bank as the first run.  *)
(***************************************************************************)
Determinism ==
  (run = "second" /\ pc = "done") =>
    /\ Len(agents) = Len(prev[1])
    /\ \A k \in 1 .. Len(agents) :
         /\ agents[k].chosenBank = prev[1][k].chosenBank
         /\ agents[k].type = prev[1][k].type
    /\ Len(firms) = Len(prev[2])
    /\ \A k \in 1 .. Len(firms) : firms[k].price = prev[2][k].price
    /\ Len(banks) = Len(prev[3])
    /\ \A k \in 1 .. Len(banks) :
         /\ banks[k].money = prev[3][k].money
         /\ banks[k].interest = prev[3][k].interest

(***************************************************************************)
(* C5.  Every firm's type is one of the four product types.               *)
(***************************************************************************)
FirmTypeIsProductType ==
  \A k \in 1 .. Len(firms) : firms[k].type \in ProductTypes

(***************************************************************************)
(* C6.  No actor's balance is negative: money >= 0 and virtualMoney >= 0  *)
(* for every agent, firm and bank.                                         *)
(***************************************************************************)
NoNegativeBalance ==
  \A l \in {agents, firms, banks} : \A k \in 1 .. Len(l) :
    l[k].money >= 0 /\ l[k].virtualMoney >= 0

NoNegativeBalanceWitness ==
  /\ pc = "done"
  /\ Len(agents) = A /\ Len(firms) = F /\ Len(banks) = R
  /\ \E k \in 1 .. Len(banks) : banks[k].money = 0
  /\ \E k \in 1 .. Len(agents) : agents[k].virtualMoney = 0

(***************************************************************************)
(* C7.  Every bank's interest rate lies in the closed range 0..30.        *)
(***************************************************************************)
InterestInRange ==
  \A k \in 1 .. Len(banks) : 0 <= banks[k].interest /\ banks[k].interest <= 30

InterestInRangeWitness ==
  /\ pc = "done"
  /\ \E k \in 1 .. Len(banks) : banks[k].interest = 0
  /\ \E k \in 1 .. Len(banks) : banks[k].interest = 29

(***************************************************************************)
(* C8.  Actors are created once: whenever a call of setup() has returned, *)
(* however many calls there were, the lists hold exactly A agents, F      *)
(* firms and R banks, with ids 0..n-1 in each list and no id twice.       *)
(***************************************************************************)
ActorsCreatedOnce ==
  (setupCompleted /\ pc = "returned") =>
    /\ Len(agents) = A /\ Len(firms) = F /\ Len(banks) = R
    /\ \A l \in {agents, firms, banks} :
         /\ {l[k].id : k \in 1 .. Len(l)} = 0 .. (Len(l) - 1)
         /\ \A j, k \in 1 .. Len(l) : l[j].id = l[k].id => j = k

(***************************************************************************)
(* C9.  main() terminates: every run reaches the "done setting up" state, *)
(* after exactly A + F + R creations, agents first, then firms, then      *)
(* banks, and from then on no actor is added, removed or changed.         *)
(***************************************************************************)
CreationOrder ==
  /\ Len(firms) > 0 => Len(agents) = A
  /\ Len(banks) > 0 => Len(firms) = F
  /\ Ids(agents) = CountingFrom0(Len(agents))
  /\ Ids(firms) = CountingFrom0(Len(firms))
  /\ Ids(banks) = CountingFrom0(Len(banks))

MainTerminates ==
  /\ <>(pc = "done")
  /\ [](pc = "done" =>
          /\ Len(agents) = A /\ Len(firms) = F /\ Len(banks) = R
          /\ Len(agents) + Len(firms) + Len(banks) = A + F + R)
  /\ []CreationOrder
  /\ [][pc = "done" => (pc' = "done" /\ lists' = lists)]_vars

MainTerminatesWitness ==
  /\ pc = "done"
  /\ Len(agents) + Len(firms) + Len(banks) = A + F + R
  /\ CreationOrder

(***************************************************************************)
(* C10.  Chosen-bank integrity: after setup() the chosenBank of every     *)
(* agent and every firm is the id of exactly one bank of the banks list,  *)
(* 0 <= chosenBank < R.  (During setup the bank may not exist yet.)       *)
(***************************************************************************)
NamesOneBank(b) ==
  /\ 0 <= b /\ b < R
  /\ Cardinality({k \in 1 .. Len(banks) : banks[k].id = b}) = 1

ChosenBankIntegrity ==
  setupCompleted =>
    \A l \in {agents, firms} : \A k \in 1 .. Len(l) : NamesOneBank(l[k].chosenBank)

ChosenBankIntegrityWitness ==
  /\ pc = "done"
  /\ \E k \in 1 .. Len(agents) : agents[k].chosenBank = R - 1
  /\ \E k \in 1 .. Len(agents) : agents[k].chosenBank = 0
  /\ \A k \in 1 .. Len(firms) : firms[k].chosenBank = 0

\* A state during setup in which an agent names a bank not yet created.
ChosenBankNotYetCreated ==
  /\ ~setupCompleted
  /\ \E k \in 1 .. Len(agents) : ~NamesOneBank(agents[k].chosenBank)

====
